---- MODULE Spec2Model ----
(***************************************************************************)
(* focus: toggles website blocking by appending / removing a marked block  *)
(* of loopback entries in the hosts file (src/src/main.rs).                *)
(*                                                                         *)
(* Text is modelled as a sequence of tokens.  A token is either one        *)
(* character ("\n", "\r", " ", "#") or an indivisible run of characters    *)
(* that holds no whitespace at its ends: a word ("a", "127.0.0.1") or one  *)
(* of the two marker constants.  No word of the alphabet is a fragment of  *)
(* a marker, so the marker string occurs in a text exactly where the       *)
(* marker token does.                                                      *)
(*                                                                         *)
(* One behaviour is a run of invocations of the program, one after the     *)
(* other, on one hosts file.  The content of domains.txt is drawn anew at  *)
(* each invocation: the user edits it between them.                        *)
(*                                                                         *)
(* Specifications:                                                         *)
(*   Spec        every command, one invocation after the other             *)
(*   SpecDetect  Spec, with the answers of is_focus_active kept            *)
(*   SpecOff     focus off on hosts files with any arrangement of markers  *)
(*   SpecToggle  focus on / focus off on hosts files without markers       *)
(*   SpecRace    two invocations step by step, and another writer          *)
(***************************************************************************)
EXTENDS Integers, Sequences, FiniteSets, TLC

\* ------------------------------------------------------------------------
\* Bounds of the model
\* ------------------------------------------------------------------------
MaxHostLines == 2
MaxDomLines == 2
MaxOffLines == 5
MaxRaceLines == 1

\* ------------------------------------------------------------------------
\* Constants of the program
\* ------------------------------------------------------------------------
BLOCK_MARKER_START == "# FOCUS-MODE-BLOCK START"
BLOCK_MARKER_END == "# FOCUS-MODE-BLOCK END"
LOOPBACK == "127.0.0.1"
NL == "\n"
CR == "\r"
SP == " "
HASH == "#"

\* char::is_whitespace, over the alphabet
Whitespace == {NL, CR, SP}

\* tokens whose first character is '#'
HashLed == {HASH, BLOCK_MARKER_START, BLOCK_MARKER_END}

\* ------------------------------------------------------------------------
\* String primitives of the standard library, as the code uses them
\* ------------------------------------------------------------------------
\* str::contains(marker)
Contains(content, marker) == \E i \in 1..Len(content) : content[i] = marker

RECURSIVE TrimEnd(_)
\* str::trim_end
TrimEnd(s) ==
    IF s = <<>> THEN <<>>
    ELSE IF s[Len(s)] \in Whitespace THEN TrimEnd(SubSeq(s, 1, Len(s) - 1))
    ELSE s

RECURSIVE TrimStart(_)
\* str::trim_start
TrimStart(s) ==
    IF s = <<>> THEN <<>>
    ELSE IF s[1] \in Whitespace THEN TrimStart(Tail(s))
    ELSE s

\* str::trim
Trim(s) == TrimStart(TrimEnd(s))

\* a line that ended in "\n" loses one "\r" before it
StripCR(line) ==
    IF line # <<>> /\ line[Len(line)] = CR THEN SubSeq(line, 1, Len(line) - 1)
    ELSE line

RECURSIVE LinesFrom(_, _, _)
LinesFrom(content, i, cur) ==
    IF i > Len(content) THEN (IF cur = <<>> THEN <<>> ELSE <<cur>>)
    ELSE IF content[i] = NL THEN <<StripCR(cur)>> \o LinesFrom(content, i + 1, <<>>)
    ELSE LinesFrom(content, i + 1, Append(cur, content[i]))

\* str::lines and BufRead::lines: split at "\n" or "\r\n", terminators removed,
\* no empty last line after a final terminator
Lines(content) == LinesFrom(content, 1, <<>>)

RECURSIVE Concat(_)
\* the concatenation of a sequence of texts
Concat(ss) == IF ss = <<>> THEN <<>> ELSE Head(ss) \o Concat(Tail(ss))

\* ------------------------------------------------------------------------
\* The domain list
\* ------------------------------------------------------------------------
\* ensure_focus_dir: the default domains.txt
DefaultDomains ==
    <<HASH, SP, "Add one domain per line", NL,
      HASH, SP, "Lines starting with # are comments", NL,
      HASH, SP, "Example:", NL,
      HASH, SP, "instagram.com", NL,
      HASH, SP, "twitter.com", NL,
      "instagram.com", NL,
      "www.instagram.com", NL,
      "x.com", NL,
      "www.x.com", NL,
      "twitter.com", NL,
      "www.twitter.com", NL>>

\* the filter of read_domains, applied to a trimmed line
IsEntry(line) == line # <<>> /\ line[1] \notin HashLed

\* a variant that filters the lines before it trims them
read_domains_FilterFirst(file) ==
    LET kept == SelectSeq(Lines(file), IsEntry)
    IN  [i \in 1..Len(kept) |-> Trim(kept[i])]

\* read_domains: the trimmed lines that are neither empty nor comments
read_domains(file) ==
    LET trimmed == [i \in 1..Len(Lines(file)) |-> Trim(Lines(file)[i])]
    IN  SelectSeq(trimmed, IsEntry)

\* ------------------------------------------------------------------------
\* The hosts file
\* ------------------------------------------------------------------------
\* a variant that looks for the end marker
is_focus_active_End(readable, content) ==
    IF readable THEN Contains(content, BLOCK_MARKER_END) ELSE FALSE

\* is_focus_active: a failed read answers false
is_focus_active(readable, content) ==
    IF readable THEN Contains(content, BLOCK_MARKER_START) ELSE FALSE

\* a variant that opens the block with the end marker
Block_WrongMarker(domains) ==
    <<NL, BLOCK_MARKER_END, NL>>
    \o Concat([i \in 1..Len(domains) |-> <<LOOPBACK, SP>> \o domains[i] \o <<NL>>])
    \o <<BLOCK_MARKER_END, NL>>

\* a variant that lists the domains last to first
Block_Reversed(domains) ==
    <<NL, BLOCK_MARKER_START, NL>>
    \o Concat([i \in 1..Len(domains) |->
            <<LOOPBACK, SP>> \o domains[Len(domains) + 1 - i] \o <<NL>>])
    \o <<BLOCK_MARKER_END, NL>>

\* focus_on: the block to add
Block(domains) ==
    <<NL, BLOCK_MARKER_START, NL>>
    \o Concat([i \in 1..Len(domains) |-> <<LOOPBACK, SP>> \o domains[i] \o <<NL>>])
    \o <<BLOCK_MARKER_END, NL>>

\* focus_on: the content written
Applied(content, domains) == content \o Block(domains)

RECURSIVE KeptFrom_NoReset(_, _, _)
\* a variant whose end marker leaves in_block set
KeptFrom_NoReset(ls, i, in_block) ==
    IF i > Len(ls) THEN <<>>
    ELSE IF Contains(ls[i], BLOCK_MARKER_START) THEN KeptFrom_NoReset(ls, i + 1, TRUE)
    ELSE IF Contains(ls[i], BLOCK_MARKER_END) THEN KeptFrom_NoReset(ls, i + 1, in_block)
    ELSE IF ~in_block THEN ls[i] \o <<NL>> \o KeptFrom_NoReset(ls, i + 1, in_block)
    ELSE KeptFrom_NoReset(ls, i + 1, in_block)

RECURSIVE KeptFrom_Toggle(_, _, _)
\* a variant whose start marker flips in_block
KeptFrom_Toggle(ls, i, in_block) ==
    IF i > Len(ls) THEN <<>>
    ELSE IF Contains(ls[i], BLOCK_MARKER_START) THEN KeptFrom_Toggle(ls, i + 1, ~in_block)
    ELSE IF Contains(ls[i], BLOCK_MARKER_END) THEN KeptFrom_Toggle(ls, i + 1, FALSE)
    ELSE IF ~in_block THEN ls[i] \o <<NL>> \o KeptFrom_Toggle(ls, i + 1, in_block)
    ELSE KeptFrom_Toggle(ls, i + 1, in_block)

RECURSIVE KeptFrom_NoSet(_, _, _)
\* a variant whose start marker is dropped without setting in_block
KeptFrom_NoSet(ls, i, in_block) ==
    IF i > Len(ls) THEN <<>>
    ELSE IF Contains(ls[i], BLOCK_MARKER_START) THEN KeptFrom_NoSet(ls, i + 1, in_block)
    ELSE IF Contains(ls[i], BLOCK_MARKER_END) THEN KeptFrom_NoSet(ls, i + 1, FALSE)
    ELSE IF ~in_block THEN ls[i] \o <<NL>> \o KeptFrom_NoSet(ls, i + 1, in_block)
    ELSE KeptFrom_NoSet(ls, i + 1, in_block)

RECURSIVE KeptFirstPair(_, _, _, _)
KeptFirstPair(ls, i, in_block, closed) ==
    IF i > Len(ls) THEN <<>>
    ELSE IF Contains(ls[i], BLOCK_MARKER_START)
    THEN KeptFirstPair(ls, i + 1, ~closed, closed)
    ELSE IF Contains(ls[i], BLOCK_MARKER_END)
    THEN KeptFirstPair(ls, i + 1, FALSE, closed \/ in_block)
    ELSE IF ~in_block THEN ls[i] \o <<NL>> \o KeptFirstPair(ls, i + 1, in_block, closed)
    ELSE KeptFirstPair(ls, i + 1, in_block, closed)

\* a variant that stops looking for start markers once a region has been closed
KeptFrom_FirstPair(ls, i, in_block) == KeptFirstPair(ls, i, in_block, FALSE)

RECURSIVE KeptFrom(_, _, _)
\* focus_off: the loop over the lines, in_block carried along
KeptFrom(ls, i, in_block) ==
    IF i > Len(ls) THEN <<>>
    ELSE IF Contains(ls[i], BLOCK_MARKER_START) THEN KeptFrom(ls, i + 1, TRUE)
    ELSE IF Contains(ls[i], BLOCK_MARKER_END) THEN KeptFrom(ls, i + 1, FALSE)
    ELSE IF ~in_block THEN ls[i] \o <<NL>> \o KeptFrom(ls, i + 1, in_block)
    ELSE KeptFrom(ls, i + 1, in_block)

\* a variant that leaves a file with an unterminated region as it is
Removed_KeepUnterminated(content) ==
    IF ~Contains(content, BLOCK_MARKER_END) THEN content
    ELSE TrimEnd(KeptFrom(Lines(content), 1, FALSE)) \o <<NL>>

\* a variant that does not trim what the loop kept
Removed_NoTrim(content) == KeptFrom(Lines(content), 1, FALSE)

\* focus_off: the content written
Removed(content) == TrimEnd(KeptFrom(Lines(content), 1, FALSE)) \o <<NL>>

\* ------------------------------------------------------------------------
\* Inputs of an invocation
\* ------------------------------------------------------------------------
\* all sequences over S of length at most n
SeqsUpTo(S, n) == UNION {[1..k -> S] : k \in 0..n}

\* the lines a hosts file is made of: blank, an ordinary entry, an entry of a
\* CRLF file, and the two marker lines
HostLineSet ==
    {<<>>, <<"a">>, <<"a", CR>>, <<BLOCK_MARKER_START>>, <<BLOCK_MARKER_END>>}

\* the lines joined by "\n"; the last one is terminated when final holds
JoinLines(ls, final) ==
    Concat([i \in 1..Len(ls) |->
        IF i < Len(ls) \/ final THEN ls[i] \o <<NL>> ELSE ls[i]])

\* the hosts files an invocation sequence may start from
HostsFiles ==
    {JoinLines(ls, final) : ls \in SeqsUpTo(HostLineSet, MaxHostLines), final \in BOOLEAN}

\* the lines a domains.txt is made of: blank, an indented comment, a domain,
\* and two domains to trim that embed a marker
DomLineSet ==
    {<<>>, <<SP, HASH, "a">>, <<"a">>,
     <<SP, "b", BLOCK_MARKER_START, SP>>, <<"c", BLOCK_MARKER_END>>}

\* the contents of domains.txt an invocation may find
DomainFiles == {JoinLines(ls, TRUE) : ls \in SeqsUpTo(DomLineSet, MaxDomLines)}

\* domains.txt before an invocation: the user's file, or none yet
DomainStates ==
    {[exists |-> TRUE, content |-> f] : f \in DomainFiles}
    \cup {[exists |-> FALSE, content |-> <<>>]}

\* the lines of the hosts files remove-block is tried on: blank, an entry, an
\* entry of a CRLF file with a space at its end, and the two marker lines
OffLineSet ==
    {<<>>, <<"a">>, <<"b", SP, CR>>, <<BLOCK_MARKER_START>>, <<BLOCK_MARKER_END>>}

\* the lines of a hosts file without markers: blank, an entry, an entry of a
\* CRLF file, and an entry that two carriage returns end
ToggleLineSet == {<<>>, <<"a">>, <<"a", CR>>, <<"a", CR, CR>>}

\* the hosts files without markers that the toggling may start from
ToggleFiles ==
    {JoinLines(ls, final) : ls \in SeqsUpTo(ToggleLineSet, MaxHostLines), final \in BOOLEAN}

\* the hosts files focus off may find
OffFiles ==
    {JoinLines(ls, final) : ls \in SeqsUpTo(OffLineSet, MaxOffLines), final \in BOOLEAN}

\* ------------------------------------------------------------------------
\* State
\* ------------------------------------------------------------------------
VARIABLES
    hosts,        \* the content of the hosts file
    readable,     \* the hosts file can be read
    last,         \* the invocation that has just ended: its inputs and what it
                  \* did; NoInvocation between two invocations
    preOn,        \* the content focus_on read when it wrote the block that is
                  \* still untouched, or that focus_off has just removed
    onValid,      \* preOn is meaningful
    markerFree0,  \* the hosts file held no marker when the run started
    seen,         \* <<b>> when is_focus_active has answered b since the hosts
                  \* file was last changed, <<>> when it has not been called
                  \* (kept where the answers are compared, SpecDetect)
    toggling,     \* plain: the run started on a file without markers, every
                  \* block written since listed domains without marker text
                  \* and no write has failed half-way; firstOff: the content
                  \* the first focus off of such a run wrote, <<>> before it
    procs         \* the invocations that run side by side, step by step

vars == <<hosts, readable, last, preOn, onValid, markerFree0, seen, toggling, procs>>

\* what a command did: the file it left, what is_focus_active answered, the
\* domains.txt and the domain list focus_on read, the io::Error returned,
\* stdout, and the calls on the hosts file and the notifier in their order
Res(h, active, domfile, domains, err, out, events) ==
    [hosts |-> h, active |-> active, domfile |-> domfile, domains |-> domains,
     err |-> err, out |-> out, events |-> events]

\* fs::write(HOSTS_FILE, content): the file and the error it leaves.  A write
\* that fails after the file was opened leaves it truncated.
WriteHosts(content, new, fault) ==
    IF fault = "wdenied" THEN [hosts |-> content, err |-> "denied"]
    ELSE IF fault = "wfail" THEN [hosts |-> <<>>, err |-> "other"]
    ELSE [hosts |-> new, err |-> "none"]

\* flush_dns_cache: both commands are run, their results are dropped (whether
\* they could be started and how they ended is the fault "flushfail" of the
\* invocation, which nothing here looks at)
flush_dns_cache == <<"flush">>

\* focus_on
focus_on(content, canRead, fault, domfile) ==
    IF is_focus_active(canRead, content)
    THEN Res(content, TRUE, <<>>, <<>>, "none", <<"already active">>, <<>>)
    ELSE IF fault = "domopen"
    THEN Res(content, FALSE, <<>>, <<>>, "other", <<>>, <<>>)
    ELSE LET domains == read_domains(domfile) IN
    IF domains = <<>>
    THEN Res(content, FALSE, domfile, domains, "none", <<"no domains">>, <<>>)
    ELSE IF ~canRead
    THEN Res(content, FALSE, domfile, domains, "denied", <<>>, <<>>)
    ELSE LET w == WriteHosts(content, Applied(content, domains), fault) IN
    IF w.err # "none"
    THEN Res(w.hosts, FALSE, domfile, domains, w.err, <<>>, <<"write failed">>)
    ELSE Res(w.hosts, FALSE, domfile, domains, "none", <<"activated">>,
             <<"write">> \o flush_dns_cache)

\* focus_off
focus_off(content, canRead, fault) ==
    IF ~is_focus_active(canRead, content)
    THEN Res(content, FALSE, <<>>, <<>>, "none", <<"not active">>, <<>>)
    ELSE LET w == WriteHosts(content, Removed(content), fault) IN
    IF w.err # "none"
    THEN Res(w.hosts, TRUE, <<>>, <<>>, w.err, <<>>, <<"write failed">>)
    ELSE Res(w.hosts, TRUE, <<>>, <<>>, "none", <<"deactivated">>,
             <<"write">> \o flush_dns_cache)

\* a variant that writes the file back with a newline at its end
focus_status_Rewrites(content, canRead, fault, listed) ==
    LET active == is_focus_active(canRead, content)
        head == IF active THEN <<"ACTIVE">> ELSE <<"INACTIVE">>
    IN  Res(TrimEnd(content) \o <<NL>>, active, <<>>, <<>>,
            IF fault = "domopen" THEN "other" ELSE "none", head, <<>>)

\* focus_status
focus_status(content, canRead, fault, listed) ==
    LET active == is_focus_active(canRead, content)
        head == IF active THEN <<"ACTIVE">> ELSE <<"INACTIVE">>
    IN  IF fault = "domopen"
        THEN Res(content, active, <<>>, <<>>, "other", head, <<>>)
        ELSE IF ~listed
        THEN Res(content, active, <<>>, <<>>, "none", head \o <<"none configured">>, <<>>)
        ELSE Res(content, active, <<>>, <<>>, "none", head \o <<"domains">>, <<>>)

\* focus_edit
focus_edit(content, canRead, fault, saved) ==
    IF fault = "spawn"
    THEN Res(content, FALSE, <<>>, <<>>, "other", <<>>, <<>>)
    ELSE IF ~saved
    THEN Res(content, FALSE, <<>>, <<>>, "none", <<>>, <<>>)
    ELSE LET active == is_focus_active(canRead, content) IN
         Res(content, active, <<>>, <<>>, "none",
             IF active THEN <<"saved", "tip">> ELSE <<"saved">>, <<>>)

\* a variant that reports the error and ends normally
ExitCode_Zero(fault, err) == 0

\* a variant that treats a failed cache flush as an error of the command
ExitCode_NotifierChecked(fault, err) ==
    IF fault \in {"dir", "flushfail"} \/ err # "none" THEN 1 ELSE 0

\* main: the exit code of the process
ExitCode(fault, err) ==
    IF fault = "dir" \/ err # "none" THEN 1 ELSE 0

\* ensure_focus_dir: domains.txt as the command finds it
ensure_focus_dir(dom) == IF dom.exists THEN dom.content ELSE DefaultDomains

\* focus_status: whether read_domains finds a domain to list, over every
\* domains.txt
Listings == {read_domains(ensure_focus_dir(dom)) # <<>> : dom \in DomainStates}

\* a command that main never reached
NotRun(content, fault) ==
    Res(content, FALSE, <<>>, <<>>, IF fault = "dir" THEN "other" ELSE "none", <<>>, <<>>)

\* no process of the program is running or has just ended
NoInvocation ==
    [cmd |-> "none", readable |-> TRUE, pre |-> <<>>, ran |-> FALSE,
     active |-> FALSE, domfile |-> <<>>, domains |-> <<>>, err |-> "none",
     exit |-> 0, out |-> <<>>, events |-> <<>>, notifier |-> "none",
     prior |-> <<>>]

\* no invocation is run step by step
NoRace == <<>>

\* the invocation has called is_focus_active (focus_edit does once the
\* editor has ended with success)
Detected(inv) ==
    /\ inv.ran
    /\ inv.cmd \in {"on", "off", "status"} \/ (inv.cmd = "edit" /\ inv.out # <<>>)

\* a domain of the list holds one of the markers
MarkerIn(domains) ==
    \E i \in 1..Len(domains) :
        Contains(domains[i], BLOCK_MARKER_START) \/ Contains(domains[i], BLOCK_MARKER_END)

\* how the invocation leaves the account of the toggling
Toggled(cmd, r) ==
    LET wrote == r.events # <<>> /\ r.events[1] = "write"
        plain == /\ toggling.plain
                 /\ ~(r.events = <<"write failed">> /\ r.hosts # hosts)
                 /\ ~(cmd = "on" /\ wrote /\ MarkerIn(r.domains))
    IN  [plain |-> plain,
         firstOff |-> IF ~plain THEN <<>>
                      ELSE IF cmd = "off" /\ wrote /\ toggling.firstOff = <<>>
                      THEN r.hosts
                      ELSE toggling.firstOff]

\* flush_dns_cache: how the notifier fared, when the command called it
Notified(fault, events) ==
    IF \E i \in 1..Len(events) : events[i] = "flush"
    THEN (IF fault = "flushfail" THEN "failed" ELSE "ok")
    ELSE "none"

\* main: what the invocation leaves behind
Finish(cmd, fault, r) ==
    /\ last = NoInvocation
    /\ hosts' = r.hosts
    /\ last' = [cmd |-> cmd, readable |-> readable, pre |-> hosts, ran |-> fault # "dir",
                active |-> r.active, domfile |-> r.domfile, domains |-> r.domains,
                err |-> r.err, exit |-> ExitCode(fault, r.err), out |-> r.out,
                events |-> r.events, notifier |-> Notified(fault, r.events),
                prior |-> seen]
    /\ toggling' = Toggled(cmd, r)
    /\ IF cmd = "on" /\ r.events # <<>> /\ r.events[1] = "write"
       THEN preOn' = hosts /\ onValid' = TRUE
       ELSE IF cmd = "off" /\ r.events # <<>> /\ r.events[1] = "write"
       THEN UNCHANGED <<preOn, onValid>>
       ELSE IF r.hosts = hosts
       THEN UNCHANGED <<preOn, onValid>>
       ELSE preOn' = <<>> /\ onValid' = FALSE
    /\ UNCHANGED <<readable, markerFree0, seen, procs>>

\* The hosts file is there, or missing or closed to the user, for the whole
\* run; whether it may be written is drawn at each write.
Init ==
    /\ hosts \in HostsFiles
    /\ readable \in BOOLEAN
    /\ last = NoInvocation
    /\ preOn = <<>>
    /\ onValid = FALSE
    /\ markerFree0 = (~Contains(hosts, BLOCK_MARKER_START) /\ ~Contains(hosts, BLOCK_MARKER_END))
    /\ seen = <<>>
    /\ toggling = [plain |-> markerFree0, firstOff |-> <<>>]
    /\ procs = NoRace

\* what may fail in an invocation besides reading the hosts file:
\* ensure_focus_dir fails ("dir"), domains.txt cannot be opened ("domopen"), the
\* hosts file may not be written ("wdenied"), the hosts file is opened for
\* writing but the data does not reach it ("wfail"), the editor cannot be
\* started ("spawn"), the cache-flush commands cannot be started or end with
\* a failure ("flushfail").  The home directory is taken to be known.
FaultsOf(cmd) ==
    {"none", "dir"}
    \cup (IF cmd \in {"on", "off"} THEN {"flushfail"} ELSE {})
    \cup (IF cmd \in {"on", "status"} THEN {"domopen"} ELSE {})
    \cup (IF cmd \in {"on", "off"} /\ readable THEN {"wdenied", "wfail"} ELSE {})
    \cup (IF cmd = "edit" THEN {"spawn"} ELSE {})

\* focus on.  A file without the start marker that has outgrown the bound is
\* not given another block.
FocusOn ==
    /\ Contains(hosts, BLOCK_MARKER_START) \/ Len(Lines(hosts)) <= MaxHostLines + 1
    /\ \E fault \in FaultsOf("on") :
        IF fault = "dir"
        THEN Finish("on", fault, NotRun(hosts, fault))
        ELSE IF fault = "domopen" \/ is_focus_active(readable, hosts)
        THEN Finish("on", fault, focus_on(hosts, readable, fault, <<>>))
        ELSE \E dom \in DomainStates :
                Finish("on", fault, focus_on(hosts, readable, fault, ensure_focus_dir(dom)))

\* focus off
FocusOff ==
    \E fault \in FaultsOf("off") :
        IF fault = "dir"
        THEN Finish("off", fault, NotRun(hosts, fault))
        ELSE Finish("off", fault, focus_off(hosts, readable, fault))

\* focus status
FocusStatus ==
    \E fault \in FaultsOf("status") :
        IF fault = "dir"
        THEN Finish("status", fault, NotRun(hosts, fault))
        ELSE IF fault = "domopen"
        THEN Finish("status", fault, focus_status(hosts, readable, fault, FALSE))
        ELSE \E listed \in Listings :
                Finish("status", fault, focus_status(hosts, readable, fault, listed))

\* focus edit
FocusEdit ==
    \E fault \in FaultsOf("edit"), saved \in BOOLEAN :
        IF fault = "dir"
        THEN Finish("edit", fault, NotRun(hosts, fault))
        ELSE Finish("edit", fault, focus_edit(hosts, readable, fault, saved))

\* The process has ended: the next invocation starts from the hosts file
\* alone.  Once focus_off has removed the block, preOn is of no use.
Idle ==
    /\ last # NoInvocation
    /\ last' = NoInvocation
    /\ IF last.cmd = "off" /\ last.events # <<>> /\ last.events[1] = "write"
       THEN preOn' = <<>> /\ onValid' = FALSE
       ELSE UNCHANGED <<preOn, onValid>>
    /\ UNCHANGED <<hosts, readable, markerFree0, seen, toggling, procs>>

Next == FocusOn \/ FocusOff \/ FocusStatus \/ FocusEdit \/ Idle

Spec == Init /\ [][Next]_vars

\* The process has ended, as in Idle, and what is_focus_active answered in it
\* is kept for the next invocation to compare with, unless the invocation has
\* changed the hosts file.
IdleNoting ==
    /\ last # NoInvocation
    /\ last' = NoInvocation
    /\ IF last.cmd = "off" /\ last.events # <<>> /\ last.events[1] = "write"
       THEN preOn' = <<>> /\ onValid' = FALSE
       ELSE UNCHANGED <<preOn, onValid>>
    /\ seen' = (IF hosts # last.pre THEN <<>>
                ELSE IF Detected(last) THEN <<last.active>>
                ELSE seen)
    /\ UNCHANGED <<hosts, readable, markerFree0, toggling, procs>>

NextDetect == FocusOn \/ FocusOff \/ FocusStatus \/ FocusEdit \/ IdleNoting

\* the invocations of Spec, with the answers of is_focus_active kept
SpecDetect == Init /\ [][NextDetect]_vars

\* focus off, and nothing else, on a readable hosts file with any arrangement
\* of markers
InitOff ==
    /\ hosts \in OffFiles
    /\ readable = TRUE
    /\ last = NoInvocation
    /\ preOn = <<>>
    /\ onValid = FALSE
    /\ markerFree0 = (~Contains(hosts, BLOCK_MARKER_START) /\ ~Contains(hosts, BLOCK_MARKER_END))
    /\ seen = <<>>
    /\ toggling = [plain |-> markerFree0, firstOff |-> <<>>]
    /\ procs = NoRace

NextOff == FocusOff \/ Idle

SpecOff == InitOff /\ [][NextOff]_vars

\* ------------------------------------------------------------------------
\* Invocations side by side
\* ------------------------------------------------------------------------
\* Two invocations of focus on / focus off run at once on one hosts file that
\* can be read and written, and somebody else may add a line to it.  A step
\* is one access to the hosts file: the read of is_focus_active (with what
\* the command does next without touching the file: read_domains), the read
\* of the content, the write (with flush_dns_cache and the message).
Procs == {1, 2}

\* the line somebody else adds
OtherLine == "x"

\* the hosts files the invocations may start on
RaceFiles ==
    {JoinLines(ls, final) : ls \in SeqsUpTo(HostLineSet, MaxRaceLines), final \in BOOLEAN}

\* the contents of domains.txt an invocation may find: a domain, a comment,
\* a domain that embeds the end marker
RaceDomainFiles == {<<"a", NL>>, <<HASH, "a", NL>>, <<"c", BLOCK_MARKER_END, NL>>}

\* an invocation of cmd before its first step, on the hosts file h
Proc0(cmd, h) ==
    [pc |-> "check", cmd |-> cmd, start |-> h, active |-> FALSE, domains |-> <<>>,
     content |-> <<>>, stale |-> FALSE, out |-> "", err |-> "none"]

\* a variant without the guards
Proceeds_Unguarded(cmd, active) == TRUE

\* the guard of focus_on and of focus_off on what is_focus_active answered
Proceeds(cmd, active) == IF cmd = "on" THEN ~active ELSE active

\* a variant that works on the file as it is at the write
Written_Fresh(cmd, current, read, domains) ==
    IF cmd = "on" THEN Applied(current, domains) ELSE Removed(current)

\* what fs::write is given: made from the content read, whatever the file
\* holds by now
Written(cmd, current, read, domains) ==
    IF cmd = "on" THEN Applied(read, domains) ELSE Removed(read)

InitRace ==
    /\ hosts \in RaceFiles
    /\ readable = TRUE
    /\ last = NoInvocation
    /\ preOn = <<>>
    /\ onValid = FALSE
    /\ markerFree0 = (~Contains(hosts, BLOCK_MARKER_START) /\ ~Contains(hosts, BLOCK_MARKER_END))
    /\ seen = <<>>
    /\ toggling = [plain |-> FALSE, firstOff |-> <<>>]
    /\ procs \in {[p \in Procs |-> Proc0(cmds[p], hosts)] : cmds \in [Procs -> {"on", "off"}]}

\* is_focus_active, the guard, and in focus_on read_domains and its guard
RaceCheck(p) ==
    /\ procs[p].pc = "check"
    /\ LET me == procs[p]
           active == is_focus_active(readable, hosts)
       IN  IF ~Proceeds(me.cmd, active)
           THEN procs' = [procs EXCEPT ![p] =
                    [me EXCEPT !.pc = "done", !.active = active,
                               !.out = IF me.cmd = "on" THEN "already active"
                                       ELSE "not active"]]
           ELSE IF me.cmd = "off"
           THEN procs' = [procs EXCEPT ![p] = [me EXCEPT !.pc = "read", !.active = active]]
           ELSE \E f \in RaceDomainFiles :
                   LET domains == read_domains(f) IN
                   IF domains = <<>>
                   THEN procs' = [procs EXCEPT ![p] =
                            [me EXCEPT !.pc = "done", !.active = active,
                                       !.out = "no domains"]]
                   ELSE procs' = [procs EXCEPT ![p] =
                            [me EXCEPT !.pc = "read", !.active = active,
                                       !.domains = domains]]
    /\ UNCHANGED <<hosts, readable, last, preOn, onValid, markerFree0, seen, toggling>>

\* fs::read_to_string(HOSTS_FILE)
RaceRead(p) ==
    /\ procs[p].pc = "read"
    /\ procs' = [procs EXCEPT ![p] = [@ EXCEPT !.pc = "write", !.content = hosts]]
    /\ UNCHANGED <<hosts, readable, last, preOn, onValid, markerFree0, seen, toggling>>

\* fs::write(HOSTS_FILE, ...), flush_dns_cache, the message, Ok(())
RaceWrite(p) ==
    /\ procs[p].pc = "write"
    /\ LET me == procs[p] IN
       /\ hosts' = Written(me.cmd, hosts, me.content, me.domains)
       /\ procs' = [procs EXCEPT ![p] =
               [me EXCEPT !.pc = "done", !.stale = (hosts # me.content),
                          !.out = IF me.cmd = "on" THEN "activated" ELSE "deactivated"]]
    /\ UNCHANGED <<readable, last, preOn, onValid, markerFree0, seen, toggling>>

\* somebody else adds a line to the hosts file
OtherWriter ==
    /\ ~Contains(hosts, OtherLine)
    /\ hosts' = hosts \o <<OtherLine, NL>>
    /\ UNCHANGED <<readable, last, preOn, onValid, markerFree0, seen, toggling, procs>>

NextRace ==
    \/ \E p \in Procs : RaceCheck(p)
    \/ \E p \in Procs : RaceRead(p)
    \/ \E p \in Procs : RaceWrite(p)
    \/ OtherWriter

SpecRace == InitRace /\ [][NextRace]_vars

\* focus on and focus off, again and again, on a readable hosts file that
\* holds no marker at first
InitToggle ==
    /\ hosts \in ToggleFiles
    /\ readable = TRUE
    /\ last = NoInvocation
    /\ preOn = <<>>
    /\ onValid = FALSE
    /\ markerFree0 = TRUE
    /\ seen = <<>>
    /\ toggling = [plain |-> TRUE, firstOff |-> <<>>]
    /\ procs = NoRace

NextToggle == FocusOn \/ FocusOff \/ Idle

SpecToggle == InitToggle /\ [][NextToggle]_vars

\* ------------------------------------------------------------------------
\* Vocabulary of the properties
\* ------------------------------------------------------------------------
\* detect-active on a hosts file that can be read
DetectActive(content) == Contains(content, BLOCK_MARKER_START)

\* the text holds neither marker
MarkerFree(content) ==
    ~Contains(content, BLOCK_MARKER_START) /\ ~Contains(content, BLOCK_MARKER_END)

\* the last invocation was focus on and it wrote the block and notified
OnApplied == last.cmd = "on" /\ last.events = <<"write", "flush">>

\* the last invocation was focus off and it rewrote the file and notified
OffRemoved == last.cmd = "off" /\ last.events = <<"write", "flush">>

\* a line that opens a region; a line that closes one (a line holding both
\* markers opens)
StartLine(l) == Contains(l, BLOCK_MARKER_START)
EndLine(l) == ~Contains(l, BLOCK_MARKER_START) /\ Contains(l, BLOCK_MARKER_END)

\* line i lies inside a region: some start line before it has no end line
\* between itself and line i
InRegion(ls, i) ==
    \E j \in 1..(i - 1) :
        /\ StartLine(ls[j])
        /\ \A k \in (j + 1)..(i - 1) : ~EndLine(ls[k])

\* the indices of the lines outside every region, marker lines excluded
NonRegionIdx(ls) ==
    {i \in 1..Len(ls) : ~StartLine(ls[i]) /\ ~EndLine(ls[i]) /\ ~InRegion(ls, i)}

RECURSIVE Pick(_, _, _)
Pick(ls, I, i) ==
    IF i > Len(ls) THEN <<>>
    ELSE (IF i \in I THEN <<ls[i]>> ELSE <<>>) \o Pick(ls, I, i + 1)

\* the lines of a text outside every region, in their order
NonRegionLines(content) == Pick(Lines(content), NonRegionIdx(Lines(content)), 1)

\* the number of lines of a text that hold the marker
MarkerLines(content, marker) ==
    Cardinality({i \in 1..Len(Lines(content)) : Contains(Lines(content)[i], marker)})

\* a region is present: a line with the start marker, a later one with the end
RegionPresent(content) ==
    \E i, j \in 1..Len(Lines(content)) :
        /\ i < j
        /\ Contains(Lines(content)[i], BLOCK_MARKER_START)
        /\ Contains(Lines(content)[j], BLOCK_MARKER_END)

\* a domains.txt without a domain entry: every line is blank or, trimmed,
\* starts with '#'
NoEntryFile(file) ==
    \A i \in 1..Len(Lines(file)) :
        LET t == Trim(Lines(file)[i]) IN t = <<>> \/ t[1] \in HashLed

\* ------------------------------------------------------------------------
\* C1
\* ------------------------------------------------------------------------
\* C1: focus on and then focus off, with nothing else touching the file in
\* between, leave a hosts file that held no marker exactly as it was.
C1_RoundTrip ==
    (OffRemoved /\ onValid /\ MarkerFree(preOn)) => hosts = preOn

\* ------------------------------------------------------------------------
\* C2
\* ------------------------------------------------------------------------
\* C2: when focus on, given a non-empty domain list and a readable hosts file
\* on which detect-active is false, ends successfully, detect-active is true.
C2_OnActivates ==
    (/\ last.cmd = "on" /\ last.ran /\ last.readable
     /\ ~DetectActive(last.pre)
     /\ read_domains(last.domfile) # <<>>
     /\ last.exit = 0)
    => is_focus_active(TRUE, hosts)

C2_Witness ==
    /\ last.cmd = "on" /\ last.ran /\ last.readable
    /\ ~DetectActive(last.pre)
    /\ Len(read_domains(last.domfile)) >= 2
    /\ last.exit = 0
    /\ hosts # last.pre

\* ------------------------------------------------------------------------
\* C3
\* ------------------------------------------------------------------------
\* C3: when focus off ends successfully on a file on which detect-active was
\* true, however its markers are arranged, the file holds no start marker.
C3_OffDeactivates ==
    (/\ last.cmd = "off" /\ last.ran /\ last.readable
     /\ DetectActive(last.pre)
     /\ last.exit = 0)
    => (~Contains(hosts, BLOCK_MARKER_START) /\ ~is_focus_active(TRUE, hosts))

\* focus off has succeeded on a file with a start marker and no end marker
C3_Witness ==
    /\ last.cmd = "off" /\ last.ran /\ last.readable
    /\ DetectActive(last.pre)
    /\ ~Contains(last.pre, BLOCK_MARKER_END)
    /\ last.exit = 0

\* ------------------------------------------------------------------------
\* C4
\* ------------------------------------------------------------------------
\* C4: focus on while detect-active is true, and focus off while it is false,
\* leave the hosts file as it was (no second block is appended to an active
\* file), call neither the file's write nor the notifier, and end with
\* success.
C4_GuardedNoOps ==
    /\ (last.cmd = "on" /\ last.ran /\ last.readable /\ DetectActive(last.pre))
        => (hosts = last.pre /\ last.events = <<>> /\ last.exit = 0)
    /\ (last.cmd = "off" /\ last.ran /\ ~(last.readable /\ DetectActive(last.pre)))
        => (hosts = last.pre /\ last.events = <<>> /\ last.exit = 0)

\* focus on has met an active file, after a focus on that wrote the block
C4_Witness ==
    /\ last.cmd = "on" /\ last.ran /\ last.readable /\ DetectActive(last.pre)
    /\ onValid
    /\ last.out = <<"already active">>

\* ------------------------------------------------------------------------
\* C5
\* ------------------------------------------------------------------------
\* C5: started on a hosts file without markers, whatever focus on / focus off
\* invocations have run and whatever their domain lists, at most one line holds
\* the start marker, at most one the end marker, and detect-active is true
\* exactly when the region is present.
C5_AtMostOneRegion ==
    markerFree0 =>
        /\ MarkerLines(hosts, BLOCK_MARKER_START) <= 1
        /\ MarkerLines(hosts, BLOCK_MARKER_END) <= 1
        /\ DetectActive(hosts) <=> RegionPresent(hosts)

\* ------------------------------------------------------------------------
\* C6
\* ------------------------------------------------------------------------
\* C6, as claimed: the lines outside the regions of the file focus off wrote
\* are the lines outside the regions of the file it read, the same and in the
\* same order.
C6_AllKept ==
    OffRemoved => NonRegionLines(hosts) = NonRegionLines(last.pre)

\* C6, amended: the file focus off writes is the lines outside the regions of
\* the file it read, in their order, each followed by "\n", with the trailing
\* whitespace of that text (trailing blank lines, the trailing whitespace of
\* the last line left) replaced by one "\n".
C6_KeptThenTrimmed ==
    OffRemoved =>
        LET K == NonRegionLines(last.pre) IN
        hosts = TrimEnd(Concat([i \in 1..Len(K) |-> K[i] \o <<NL>>])) \o <<NL>>

\* focus off has removed a region that leaves lines outside it behind, the
\* last of them blank
C6_Witness ==
    /\ OffRemoved
    /\ Len(NonRegionLines(last.pre)) >= 2
    /\ NonRegionLines(last.pre)[Len(NonRegionLines(last.pre))] = <<>>
    /\ NonRegionLines(last.pre)[1] # <<>>

\* ------------------------------------------------------------------------
\* C7
\* ------------------------------------------------------------------------
\* where the line of the i-th domain starts in the file focus on wrote
LineStart(pre, D, i) ==
    LET before == Concat([j \in 1..(i - 1) |-> D[j]])
    IN  Len(pre) + 3 + Len(before) + 3 * (i - 1)

\* C7: the file focus on writes is the file it read, then "\n", the start
\* marker line, one line "127.0.0.1 <d>" for each domain entry d in the order
\* of the list, duplicates included, the end marker line: the file read is a
\* prefix of the file written and the region ends it.
C7_AppendsInOrder ==
    OnApplied =>
        LET D == read_domains(last.domfile)
            pre == last.pre
            end == LineStart(pre, D, Len(D) + 1)
        IN  /\ Len(hosts) = end + 2
            /\ SubSeq(hosts, 1, Len(pre)) = pre
            /\ SubSeq(hosts, Len(pre) + 1, Len(pre) + 3) = <<NL, BLOCK_MARKER_START, NL>>
            /\ \A i \in 1..Len(D) :
                  SubSeq(hosts, LineStart(pre, D, i) + 1, LineStart(pre, D, i + 1))
                      = <<LOOPBACK, SP>> \o D[i] \o <<NL>>
            /\ SubSeq(hosts, end + 1, end + 2) = <<BLOCK_MARKER_END, NL>>

\* focus on has written a block of two different domains on a file with text
C7_Witness ==
    /\ OnApplied
    /\ last.pre # <<>>
    /\ Len(last.domains) = 2
    /\ last.domains[1] # last.domains[2]

\* ------------------------------------------------------------------------
\* C8
\* ------------------------------------------------------------------------
\* C8: when domains.txt holds no domain entry, focus on on a file on which
\* detect-active is false leaves the hosts file as it was, detect-active
\* stays false, and neither the write nor the notifier is called.
C8_NoDomainsNoBlock ==
    (/\ last.cmd = "on" /\ last.ran
     /\ ~DetectActive(last.pre)
     /\ NoEntryFile(last.domfile))
    => (/\ hosts = last.pre
        /\ last.events = <<>>
        /\ ~DetectActive(hosts))

\* focus on has read a domains.txt of blank lines and comments only
C8_Witness ==
    /\ last.cmd = "on" /\ last.ran
    /\ ~DetectActive(last.pre)
    /\ Len(Lines(last.domfile)) = 2
    /\ Lines(last.domfile)[1] # Lines(last.domfile)[2]
    /\ NoEntryFile(last.domfile)
    /\ last.out = <<"no domains">>

\* ------------------------------------------------------------------------
\* C9
\* ------------------------------------------------------------------------
\* C9: detect-active answers true exactly when the hosts file holds the start
\* marker, and when the file cannot be read focus on, focus off and focus
\* status end with the error.
C9_UnreadableIsError ==
    /\ (last.ran /\ last.readable /\ last.cmd \in {"on", "off", "status"})
        => (last.active <=> DetectActive(last.pre))
    /\ (last.ran /\ ~last.readable /\ last.cmd \in {"on", "off", "status"})
        => last.exit = 1

\* ------------------------------------------------------------------------
\* C10
\* ------------------------------------------------------------------------
\* the read or the write of the hosts file failed after the guard had passed
HostsIoFailed ==
    \/ last.events # <<>> /\ last.events[1] = "write failed"
    \/ /\ last.cmd = "on" /\ last.ran /\ ~last.readable
       /\ read_domains(last.domfile) # <<>>

\* C10: when the read or the write of the hosts file fails in focus on or
\* focus off after the guard has passed, the invocation ends with exit code 1,
\* the write is not tried again, the notifier is not called and no transition
\* is reported; an invocation that meets no I/O error ends with exit code 0.
C10_ErrorsPropagate ==
    /\ HostsIoFailed =>
        (/\ last.exit = 1
         /\ Len(last.events) <= 1
         /\ \A i \in 1..Len(last.events) : last.events[i] # "flush"
         /\ last.out = <<>>)
    /\ (last.cmd # "none" /\ last.ran /\ last.err = "none") => last.exit = 0

\* the write of focus off has failed
C10_Witness ==
    /\ last.cmd = "off"
    /\ last.events = <<"write failed">>
    /\ last.exit = 1

\* ------------------------------------------------------------------------
\* C11
\* ------------------------------------------------------------------------
\* the content the command writes on the file it read
Expected(cmd, pre, domains) ==
    IF cmd = "on" THEN pre \o Block(domains) ELSE Removed(pre)

\* C11: every focus on that ends successfully having turned an inactive file
\* active, and every focus off that ends successfully having turned an active
\* file inactive, has called the notifier; the notifier is called only right
\* after the write of the hosts file, never before it; and whether the
\* notifier succeeded or failed, the file is the one the command wrote, the
\* command returns Ok, ends with exit code 0 and reports the transition.
C11_NotifierAfterWrite ==
    /\ (/\ last.cmd = "on" /\ last.ran /\ last.exit = 0
         /\ ~is_focus_active(last.readable, last.pre)
         /\ is_focus_active(readable, hosts))
        => last.events = <<"write", "flush">>
    /\ (/\ last.cmd = "off" /\ last.ran /\ last.exit = 0
         /\ is_focus_active(last.readable, last.pre)
         /\ ~is_focus_active(readable, hosts))
        => last.events = <<"write", "flush">>
    /\ \A i \in 1..Len(last.events) :
          last.events[i] = "flush" => (i > 1 /\ last.events[i - 1] = "write")
    /\ last.notifier # "none" =>
          /\ last.cmd \in {"on", "off"}
          /\ hosts = Expected(last.cmd, last.pre, last.domains)
          /\ hosts # last.pre
          /\ last.err = "none"
          /\ last.exit = 0
          /\ last.out = (IF last.cmd = "on" THEN <<"activated">> ELSE <<"deactivated">>)

\* focus off has removed the region and the cache flush has failed
C11_Witness ==
    /\ last.cmd = "off"
    /\ last.notifier = "failed"
    /\ DetectActive(last.pre) /\ ~DetectActive(hosts)

\* ------------------------------------------------------------------------
\* C12
\* ------------------------------------------------------------------------
\* the indices of the lines that open a region, of those that close one
StartIdx(ls) == {i \in 1..Len(ls) : StartLine(ls[i])}
EndIdx(ls) == {i \in 1..Len(ls) : EndLine(ls[i])}

Least(S) == CHOOSE x \in S : \A y \in S : x <= y

\* the first line that holds the start marker
FirstStart(ls) == Least(StartIdx(ls))

\* the first line after the first start marker that holds the end marker
FirstEnd(ls) == Least({e \in EndIdx(ls) : e > FirstStart(ls)})

\* the lines among ls[from..to] that hold no marker, in their order
Plain(ls, from, to) ==
    Pick(ls, {i \in from..to : ~StartLine(ls[i]) /\ ~EndLine(ls[i])}, 1)

\* the lines, each followed by "\n", with the whitespace at the end of that
\* text replaced by one "\n"
TrimmedJoin(ls) == TrimEnd(Concat([i \in 1..Len(ls) |-> ls[i] \o <<NL>>])) \o <<NL>>

\* the text is made of exactly these lines (of one "\n" when there is none)
SameLines(content, ls) == Lines(content) = ls \/ (ls = <<>> /\ content = <<NL>>)

\* several lines hold the start marker, one line holds the end marker, and it
\* comes after them all
SeveralStartsOneEnd(ls) ==
    /\ Cardinality(StartIdx(ls)) >= 2
    /\ Cardinality(EndIdx(ls)) = 1
    /\ \A i \in StartIdx(ls), e \in EndIdx(ls) : i < e

\* the lines before the first start marker and those after the first end
\* marker behind it
AroundSpan(ls) ==
    SubSeq(ls, 1, FirstStart(ls) - 1) \o SubSeq(ls, FirstEnd(ls) + 1, Len(ls))

\* C12, as claimed: on a file with several start-marker lines followed by one
\* end-marker line, focus off drops the lines from the first start marker
\* through the end marker and the file it writes is made of the lines before
\* the first start marker and after the end marker, untouched.
C12_Untouched ==
    (OffRemoved /\ SeveralStartsOneEnd(Lines(last.pre)))
    => SameLines(hosts, AroundSpan(Lines(last.pre)))

\* C12, amended: on such a file, focus off writes the lines before the first
\* start marker and after the end marker, in their order, each followed by
\* "\n", with the whitespace at the end of that text replaced by one "\n";
\* no line from the first start marker through the end marker is written.
C12_SpanDropped ==
    (OffRemoved /\ SeveralStartsOneEnd(Lines(last.pre)))
    => hosts = TrimmedJoin(AroundSpan(Lines(last.pre)))

\* focus off has removed a span of two start markers and an end marker that
\* had a line before it and a line after it
C12_Witness ==
    /\ OffRemoved
    /\ SeveralStartsOneEnd(Lines(last.pre))
    /\ FirstStart(Lines(last.pre)) > 1
    /\ FirstEnd(Lines(last.pre)) < Len(Lines(last.pre))
    /\ Len(Lines(hosts)) = 2

\* ------------------------------------------------------------------------
\* C13
\* ------------------------------------------------------------------------
\* a line holds the start marker and no line after it closes the region
Unterminated(ls) ==
    /\ StartIdx(ls) # {}
    /\ \A e \in EndIdx(ls) : e < FirstStart(ls)

\* C13, as claimed: on a file whose start marker has no end marker after it,
\* the file focus off writes is made of the lines before the start marker
\* (those that hold no marker) and of nothing else.
C13_OnlyBefore ==
    (OffRemoved /\ Unterminated(Lines(last.pre)))
    => SameLines(hosts, Plain(Lines(last.pre), 1, FirstStart(Lines(last.pre)) - 1))

\* C13, amended: on such a file, focus off writes the lines before the first
\* start marker that hold no marker, in their order, each followed by "\n",
\* with the whitespace at the end of that text replaced by one "\n"; nothing
\* of the rest of the file is written.
C13_RestDropped ==
    (OffRemoved /\ Unterminated(Lines(last.pre)))
    => hosts = TrimmedJoin(Plain(Lines(last.pre), 1, FirstStart(Lines(last.pre)) - 1))

\* focus off has dropped two lines behind a start marker that nothing closes,
\* and kept the line before it
C13_Witness ==
    /\ OffRemoved
    /\ Unterminated(Lines(last.pre))
    /\ EndIdx(Lines(last.pre)) = {}
    /\ FirstStart(Lines(last.pre)) = 2
    /\ Len(Lines(last.pre)) >= 4
    /\ Lines(last.pre)[4] # <<>>
    /\ hosts # <<NL>>

\* ------------------------------------------------------------------------
\* C14
\* ------------------------------------------------------------------------
\* a line holds the start marker and a later line closes the region
HasPair(ls) ==
    /\ StartIdx(ls) # {}
    /\ \E e \in EndIdx(ls) : e > FirstStart(ls)

\* the lines behind line e that hold no marker and lie in no region
PlainOutside(ls, e) ==
    Pick(ls, {i \in (e + 1)..Len(ls) :
                ~StartLine(ls[i]) /\ ~EndLine(ls[i]) /\ ~InRegion(ls, i)}, 1)

\* C14, as claimed: only the first pair of markers counts.  Once the first
\* end marker behind the first start marker is passed, every later line that
\* holds no marker is written (up to the trim of the end of the text),
\* whether or not a start marker comes before it.
C14_OnlyFirstPair ==
    (OffRemoved /\ HasPair(Lines(last.pre))) =>
        LET ls == Lines(last.pre) IN
        hosts = TrimmedJoin(Plain(ls, 1, FirstStart(ls) - 1)
                            \o Plain(ls, FirstEnd(ls) + 1, Len(ls)))

\* C14, amended: every pair of markers counts.  Behind the first end marker
\* a line that holds no marker is written exactly when no start marker
\* between that end marker and the line is left unclosed before the line: a
\* later start marker opens a region again and the lines up to the next end
\* marker, or to the end of the file, are dropped.
C14_EveryPair ==
    (OffRemoved /\ HasPair(Lines(last.pre))) =>
        LET ls == Lines(last.pre) IN
        hosts = TrimmedJoin(Plain(ls, 1, FirstStart(ls) - 1)
                            \o PlainOutside(ls, FirstEnd(ls)))

\* focus off has met a second start marker behind the first pair, kept the
\* line between the two regions and dropped the line in the second
C14_Witness ==
    /\ OffRemoved
    /\ HasPair(Lines(last.pre))
    /\ LET ls == Lines(last.pre) IN
       \E j \in (FirstEnd(ls) + 2)..(Len(ls) - 1) :
          /\ StartLine(ls[j])
          /\ ls[j - 1] = <<"a">>
          /\ ls[j + 1] = <<"a">>
    /\ hosts = <<"a", NL>>

\* ------------------------------------------------------------------------
\* C15
\* ------------------------------------------------------------------------
\* every token of the text is whitespace
Blank(s) == \A i \in 1..Len(s) : s[i] \in Whitespace

\* C15: whatever file focus off read, the content it writes ends with "\n",
\* the token before that "\n" is not whitespace, and the content is the
\* single "\n" when every line was dropped or the lines kept are blank.
C15_OneFinalNewline ==
    OffRemoved =>
        /\ Len(hosts) >= 1
        /\ hosts[Len(hosts)] = NL
        /\ Len(hosts) >= 2 => hosts[Len(hosts) - 1] \notin Whitespace
        /\ (\A i \in NonRegionIdx(Lines(last.pre)) : Blank(Lines(last.pre)[i]))
            => hosts = <<NL>>

\* focus off has kept a line with whitespace at its end and blank lines, and
\* trimmed them
C15_Witness ==
    /\ OffRemoved
    /\ LET K == NonRegionLines(last.pre) IN
       /\ Len(K) >= 3
       /\ K[1] = <<"b", SP>>
       /\ K[2] = <<>>
    /\ hosts = <<"b", NL>>

\* ------------------------------------------------------------------------
\* C17
\* ------------------------------------------------------------------------
\* the invocation that has just ended called is_focus_active
LastDetected == Detected(last)

GeneratedLines(pre, content) ==
    LET block == Lines(SubSeq(content, Len(pre) + 1, Len(content)))
    IN  {block[i] : i \in {j \in 1..Len(block) : block[j] # <<>> /\ block[j][1] = LOOPBACK}}

\* C18: after focus on and then focus off, with nothing else touching the file
\* in between, no line of the hosts file is one of the lines
\* "127.0.0.1 <domain>" that focus on had generated, whatever the domain list,
\* lists with entries that hold marker text included.
C18_UnblockingComplete ==
    (OffRemoved /\ onValid) =>
        \A i \in 1..Len(Lines(hosts)) :
            Lines(hosts)[i] \notin GeneratedLines(preOn, last.pre)

\* ------------------------------------------------------------------------
\* C19
\* ------------------------------------------------------------------------
\* C19: in a run of focus on and focus off that started on a hosts file
\* without markers, with domain lists without marker text, no write failing
\* and nothing else touching the file, the content after every focus off is
\* the content after the first focus off.
C19_FixedPoint ==
    (OffRemoved /\ toggling.plain /\ toggling.firstOff # <<>>)
    => hosts = toggling.firstOff

\* ------------------------------------------------------------------------
\* C16
\* ------------------------------------------------------------------------
\* C16: the content focus on / focus off writes is made from the content it
\* read and from nothing else.  Whatever another writer did to the hosts
\* file between the read and the write, the file after the write is the one
\* the command would have left without it (a line the other writer added
\* after the read is not in it), and the command reports no error.
C16_LostUpdate ==
    [][\A p \in Procs :
         (procs[p].pc = "write" /\ procs'[p].pc = "done") =>
            /\ hosts' = Expected(procs[p].cmd, procs[p].content, procs[p].domains)
            /\ ~Contains(procs[p].content, OtherLine) => ~Contains(hosts', OtherLine)
            /\ procs'[p].err = "none"
            /\ procs'[p].out \in {"activated", "deactivated"}]_vars

\* focus on has written over a line that was added to the file after it had
\* read it, while the other invocation had not yet written
C16_Witness ==
    /\ procs # NoRace
    /\ \E p, q \in Procs :
          /\ p # q
          /\ procs[p].pc = "done" /\ procs[p].out = "activated" /\ procs[p].stale
          /\ procs[q].pc = "check"
          /\ hosts = Expected("on", procs[p].content, procs[p].domains)
          /\ ~Contains(hosts, OtherLine)

\* ------------------------------------------------------------------------
\* C20
\* ------------------------------------------------------------------------
\* two invocations of focus on, started on a file on which detect-active is
\* false, have ended, neither for want of domains, and the file holds no
\* line of another writer
BothOnDone ==
    /\ procs # NoRace
    /\ \A p \in Procs :
          /\ procs[p].cmd = "on"
          /\ procs[p].pc = "done"
          /\ procs[p].out # "no domains"
          /\ ~DetectActive(procs[p].start)
    /\ ~Contains(hosts, OtherLine)

\* C20, as claimed: however the steps of the two invocations interleave, the
\* hosts file they leave holds exactly one region.
C20_ExactlyOneRegion ==
    BothOnDone => MarkerLines(hosts, BLOCK_MARKER_START) = 1

\* C20, amended: the hosts file they leave holds one region or two.  An
\* invocation whose check comes after the other's write writes nothing; the
\* file is what the last writer read followed by its block, and what it read
\* is the file the two started on, or that file followed by the block of the
\* other invocation when it checked before the other's write and read after
\* it.
C20_OneOrTwoRegions ==
    BothOnDone =>
        /\ \A p \in Procs : procs[p].active => procs[p].out = "already active"
        /\ \E p, q \in Procs :
              /\ p # q
              /\ procs[p].out = "activated"
              /\ hosts = Expected("on", procs[p].content, procs[p].domains)
              /\ \/ procs[p].content = procs[p].start
                 \/ /\ procs[q].out = "activated"
                    /\ procs[p].content
                         = Expected("on", procs[p].start, procs[q].domains)

\* both invocations have written and the file holds the two blocks, of
\* different domain lists, one behind the other
C20_Witness ==
    /\ BothOnDone
    /\ procs[1].out = "activated" /\ procs[2].out = "activated"
    /\ procs[1].domains # procs[2].domains
    /\ hosts = Expected("on", Expected("on", procs[1].start, procs[1].domains),
                        procs[2].domains)
    /\ MarkerLines(hosts, BLOCK_MARKER_START) = 2

====
